---- MODULE Spec2Model ----
(***************************************************************************)
(* VBoxInstance (src/Hypervisor/Virtualbox/VBoxInstance.cpp): the session  *)
(* registry (sessions, openSessions), its reconciliation pass              *)
(* loadSessions(), the reference-counted open/close/delete operations,     *)
(* the named-mutex discipline of the command calls and waitTillReady().    *)
(***************************************************************************)
EXTENDS Integers, Sequences, FiniteSets, TLC

\* ---------------------------------------------------------------- bounds
MaxSessions == 2        \* distinct session uuids (internal ids)
MaxVMs == 1             \* distinct VirtualBox machine ids (vboxid)
MaxObjects == 2         \* VBoxSession objects alive at the same time
MaxInstances == 2       \* cap on HVSession::instances going up
NumThreads == 2         \* threads calling into the instance at the same time
MaxLines == 2           \* output lines of the "--version" command
MaxPropLines == 2       \* output lines of the "guestproperty enumerate" command
NegDepth == 1           \* cap on HVSession::instances going down below zero

UUIDs == 1..MaxSessions
VBoxIds == 1..MaxVMs
ObjIds == 1..MaxObjects
Threads == 1..NumThreads

\* parameters->get("vboxid", "") of a session that is bound to no machine
NoVBoxId == 0
\* the empty HVSessionPtr / an unused object slot / map.end()
None == 0

SessionStates == {"SS_MISSING", "SS_RUNNING"}
VMStates == {"absent", "live", "inaccessible"}

VARIABLES
    sessions,       \* std::map<string,HVSessionPtr>: uuid -> object
    openSessions,   \* std::list<HVSessionPtr>: objects, in open order
    heap,           \* the VBoxSession objects: object -> [uuid, instances]
    disk,           \* LocalConfig runtime files "vbsess-<uuid>": uuid -> descriptor
    vms,            \* the hypervisor's machines: vboxid -> VMStates
    lastOp,         \* the last call made on the instance and what it did
    pc,             \* per thread: the function it is in and the statement it is at
    mutex,          \* the named mutexes: lock name -> holding thread
    running,        \* per thread: the hypervisor command it has running
    hv,             \* the instance's flags: vboxDrvKernelLoaded, reflectionValid, sessionLoaded
    host,           \* the host: extension pack installed, downloaded artifact on disk
    call            \* the waitTillReady/validateIntegrity/installExtPack call, when
                    \* it is the last operation made on the instance

regVars == <<sessions, openSessions, heap, disk, vms, lastOp>>
concVars == <<pc, mutex, running>>
readyVars == <<hv, host, call>>

\* ---------------------------------------------------------------- helpers
Min(S) == CHOOSE x \in S : \A y \in S : x <= y

\* std::map iteration: begin() and operator++ over the ordered keys
MapBegin(m) == IF DOMAIN m = {} THEN None ELSE Min(DOMAIN m)
MapNext(m, k) ==
    LET later == {x \in DOMAIN m : x > k}
    IN  IF later = {} THEN None ELSE Min(later)

MapErase(m, k) == [x \in DOMAIN m \ {k} |-> m[x]]
MapPut(m, k, v) == [x \in DOMAIN m \cup {k} |-> IF x = k THEN v ELSE m[x]]
EmptyMap == [x \in {} |-> None]

\* std::list::erase at position i
ListErase(l, i) == SubSeq(l, 1, i - 1) \o SubSeq(l, i + 1, Len(l))

\* first position of the open list whose session has the given uuid, or None
OpenIndexOf(hp, open, uuid) ==
    LET hits == {j \in 1..Len(open) : hp[open[j]].uuid = uuid}
    IN  IF hits = {} THEN None ELSE Min(hits)

FreeObjects(hp) == {o \in ObjIds : hp[o].uuid = None}
LiveObjects(hp) == ObjIds \ FreeObjects(hp)
FreeObject == [uuid |-> None, instances |-> 0]

\* the record every operation leaves in lastOp (id: the machine id a lookup was
\* made with)
Op(name, o, ret, aborted, notified) ==
    [op |-> name, arg |-> o, ret |-> ret, aborted |-> aborted, notified |-> notified,
     seq |-> FALSE, id |-> NoVBoxId]
\* the same, for a call that directly follows a related call on the same object
OpAfter(name, o, ret, aborted, notified, follows) ==
    [Op(name, o, ret, aborted, notified) EXCEPT !.seq = follows]

\* session->local->getNum<int>("state"): 0 (SS_MISSING) when the key is absent
LocalState(dk, uuid) ==
    IF uuid \in DOMAIN dk THEN dk[uuid].state ELSE "SS_MISSING"

\* sess->parameters->get("vboxid")
VBoxIdOf(dk, uuid) ==
    IF uuid \in DOMAIN dk THEN dk[uuid].vboxid ELSE NoVBoxId

\* the part of the state the registry operations work on
RegState == [sessions |-> sessions, openSessions |-> openSessions, heap |-> heap,
             disk |-> disk, aborted |-> {}, notified |-> {}]

\* ---------------------------------------------------------------- progress and interaction
\* one call on a collaborator, or one command: <<who, what, label>>
Ev(who, what, label) == <<who, what, label>>
\* if (pf) pf-><what>(label): reported only when the task pointer is set
Rep(pf, task, what, label) == IF pf THEN <<Ev(task, what, label)>> ELSE << >>

\* in: what the environment answered to the call, out: the data it returned
NoCall == [fn |-> "none", pf |-> FALSE, ui |-> FALSE, ret |-> "void", trace |-> << >>,
           in |-> << >>, out |-> << >>]

\* ---------------------------------------------------------------- sessionDelete
\* VBoxInstance::sessionDelete: find the map entry whose key is session->uuid;
\* erase the first open-list entry with that uuid and notify the registry's
\* object; erase the map entry; clear the file "vbsess-<uuid>".
\* mutant: the session file is left on the disk
SessionDelete_keepsFile(st, uuid) ==
    IF uuid \in DOMAIN st.sessions
    THEN LET sess == st.sessions[uuid]
             jt == OpenIndexOf(st.heap, st.openSessions, uuid)
         IN  [st EXCEPT
                !.openSessions = IF jt = None THEN @ ELSE ListErase(@, jt),
                !.notified = IF jt = None THEN @ ELSE @ \cup {sess},
                !.sessions = MapErase(@, uuid)]
    ELSE st

\* mutant: the open list and the file are cleaned up even when the map holds no
\* entry for the session
SessionDelete_unguarded(st, uuid) ==
    LET jt == OpenIndexOf(st.heap, st.openSessions, uuid)
    IN  [st EXCEPT
           !.openSessions = IF jt = None THEN @ ELSE ListErase(@, jt),
           !.notified = IF jt = None THEN @ ELSE @ \cup {st.openSessions[jt]},
           !.sessions = MapErase(@, uuid),
           !.disk = MapErase(@, uuid)]

SessionDelete(st, uuid) ==
    IF uuid \in DOMAIN st.sessions
    THEN LET sess == st.sessions[uuid]
             jt == OpenIndexOf(st.heap, st.openSessions, uuid)
         IN  [st EXCEPT
                !.openSessions = IF jt = None THEN @ ELSE ListErase(@, jt),
                !.notified = IF jt = None THEN @ ELSE @ \cup {sess},
                !.sessions = MapErase(@, uuid),
                !.disk = MapErase(@, uuid)]
    ELSE st

\* ---------------------------------------------------------------- allocateSession
\* the descriptor allocateSession() persists: cfg->set("uuid", guid) and nothing else
NewDescriptor == [name |-> FALSE, uuid |-> TRUE, vboxid |-> NoVBoxId,
                  state |-> "SS_MISSING"]

\* newGUID(): an id used by no descriptor and by no session object
FreshGUIDs(st) ==
    {g \in UUIDs : g \notin DOMAIN st.disk /\ \A o \in ObjIds : st.heap[o].uuid # g}

AllocateSession(st, guid, o) ==
    [st EXCEPT !.disk = MapPut(@, guid, NewDescriptor),
               !.heap = [@ EXCEPT ![o] = [uuid |-> guid, instances |-> 0]],
               !.sessions = MapPut(@, guid, o)]

\* ---------------------------------------------------------------- sessionByVBID
\* mutant: the first session of the map is returned when any session has the id
SessionByVBID_first(st, virtualBoxGUID) ==
    LET hits == {u \in DOMAIN st.sessions :
                    VBoxIdOf(st.disk, st.heap[st.sessions[u]].uuid) = virtualBoxGUID}
    IN  IF hits = {} THEN None ELSE st.sessions[MapBegin(st.sessions)]

\* the loop over this->sessions in key order: the first session whose "vboxid"
\* parameter equals the argument, or the empty pointer
SessionByVBID(st, virtualBoxGUID) ==
    LET hits == {u \in DOMAIN st.sessions :
                    VBoxIdOf(st.disk, st.heap[st.sessions[u]].uuid) = virtualBoxGUID}
    IN  IF hits = {} THEN None ELSE st.sessions[Min(hits)]

\* ---------------------------------------------------------------- sessionClose
\* mutant: the session is deleted at zero whatever its state
SessionClose_alwaysDeletes(st, o) ==
    LET uuid == st.heap[o].uuid
        dec == [st EXCEPT !.heap[o].instances = @ - 1]
    IN  IF dec.heap[o].instances > 0
        THEN dec
        ELSE LET jt == OpenIndexOf(dec.heap, dec.openSessions, uuid)
                 closed == [dec EXCEPT
                              !.aborted = @ \cup {o},
                              !.openSessions = IF jt = None THEN @ ELSE ListErase(@, jt)]
             IN  SessionDelete(closed, uuid)

SessionClose(st, o) ==
    LET uuid == st.heap[o].uuid
        dec == [st EXCEPT !.heap[o].instances = @ - 1]
    IN  IF dec.heap[o].instances > 0
        THEN dec
        ELSE LET jt == OpenIndexOf(dec.heap, dec.openSessions, uuid)
                 closed == [dec EXCEPT
                              !.aborted = @ \cup {o},
                              !.openSessions = IF jt = None THEN @ ELSE ListErase(@, jt)]
             IN  IF LocalState(closed.disk, uuid) = "SS_MISSING"
                 THEN SessionDelete(closed, uuid)
                 ELSE closed

\* ---------------------------------------------------------------- loadSessions
\* a descriptor is imported only when it has both a name and a uuid
ValidDescriptors(dk) == {u \in DOMAIN dk : dk[u].name /\ dk[u].uuid}

\* the k-th smallest element of a set of numbers
RECURSIVE Nth(_, _)
Nth(S, k) == IF k = 1 THEN Min(S) ELSE Nth(S \ {Min(S)}, k - 1)
Rank(S, x) == Cardinality({y \in S : y <= x})

\* mutant: every rebuilt session is made on the configuration of the first valid
\* descriptor
LoadFromDisk_sharedConfig(st) ==
    LET valid == ValidDescriptors(st.disk)
        free == FreeObjects(st.heap)
        objOf(u) == Nth(free, Rank(valid, u))
        made == {objOf(u) : u \in valid}
    IN  [st EXCEPT
           !.sessions = [u \in valid |-> objOf(u)],
           !.heap = [o \in ObjIds |->
                       IF o \in made
                       THEN [uuid |-> Min(valid), instances |-> 0]
                       ELSE @[o]]]

\* [1] sessions.clear(); one new VBoxSession per valid descriptor
LoadFromDisk(st) ==
    LET valid == ValidDescriptors(st.disk)
        free == FreeObjects(st.heap)
        objOf(u) == Nth(free, Rank(valid, u))
        made == {objOf(u) : u \in valid}
    IN  [st EXCEPT
           !.sessions = [u \in valid |-> objOf(u)],
           !.heap = [o \in ObjIds |->
                       IF o \in made
                       THEN [uuid |-> CHOOSE u \in valid : objOf(u) = o, instances |-> 0]
                       ELSE @[o]]]

\* [2] the uuid -> name map built from "list vms", without the inaccessible machines
VBoxVms(machines) == {v \in VBoxIds : machines[v] = "live"}

\* [3] the loop over this->sessions; `it` is the iterator (None is end()).  After a
\* deletion the iterator is rewound to begin() and the for statement's ++it runs.
RECURSIVE RemoveExpired(_, _, _)
RemoveExpired(st, vboxVms, it) ==
    IF it = None THEN st
    ELSE IF VBoxIdOf(st.disk, st.heap[st.sessions[it]].uuid) \notin vboxVms
         THEN LET del == SessionDelete(st, st.heap[st.sessions[it]].uuid)
              IN  IF DOMAIN del.sessions = {} THEN del
                  ELSE RemoveExpired(del, vboxVms, MapNext(del.sessions, MapBegin(del.sessions)))
         ELSE RemoveExpired(st, vboxVms, MapNext(st.sessions, it))

\* [4] the loop over openSessions; `it` is a position (Len + 1 is end()).  After an
\* erase the iterator is rewound to begin() and the for statement's ++it runs.
RECURSIVE ReleaseLost(_, _)
ReleaseLost(st, it) ==
    IF it > Len(st.openSessions) THEN st
    ELSE LET sess == st.openSessions[it]
         IN  IF st.heap[sess].uuid \notin DOMAIN st.sessions
             THEN LET rel == [st EXCEPT !.notified = @ \cup {sess},
                                        !.openSessions = ListErase(@, it)]
                  IN  IF Len(rel.openSessions) = 0 THEN rel
                      ELSE ReleaseLost(rel, 2)
             ELSE ReleaseLost(st, it + 1)

\* mutant: the expired session is not deleted before the iterator is rewound
RemoveExpiredStep_keeps(st, vboxVms, it) ==
    IF it = None THEN [st |-> st, next |-> None, rewound |-> FALSE]
    ELSE IF VBoxIdOf(st.disk, st.heap[st.sessions[it]].uuid) \notin vboxVms
         THEN [st |-> st, next |-> MapNext(st.sessions, MapBegin(st.sessions)),
               rewound |-> TRUE]
         ELSE [st |-> st, next |-> MapNext(st.sessions, it), rewound |-> FALSE]

\* one pass through the for statement of [3]: the test it != end(), the body and
\* ++it.  next = None: the loop is left (at end(), or by the break)
RemoveExpiredStep(st, vboxVms, it) ==
    IF it = None THEN [st |-> st, next |-> None, rewound |-> FALSE]
    ELSE IF VBoxIdOf(st.disk, st.heap[st.sessions[it]].uuid) \notin vboxVms
         THEN LET del == SessionDelete(st, st.heap[st.sessions[it]].uuid)
              IN  IF DOMAIN del.sessions = {}
                  THEN [st |-> del, next |-> None, rewound |-> FALSE]
                  ELSE [st |-> del, next |-> MapNext(del.sessions, MapBegin(del.sessions)),
                        rewound |-> TRUE]
         ELSE [st |-> st, next |-> MapNext(st.sessions, it), rewound |-> FALSE]

\* one pass through the for statement of [4]; next = None: the loop is left
ReleaseLostStep(st, it) ==
    IF it > Len(st.openSessions) THEN [st |-> st, next |-> None, rewound |-> FALSE]
    ELSE LET sess == st.openSessions[it]
         IN  IF st.heap[sess].uuid \notin DOMAIN st.sessions
             THEN LET rel == [st EXCEPT !.notified = @ \cup {sess},
                                        !.openSessions = ListErase(@, it)]
                  IN  IF Len(rel.openSessions) = 0
                      THEN [st |-> rel, next |-> None, rewound |-> FALSE]
                      ELSE [st |-> rel, next |-> 2, rewound |-> TRUE]
             ELSE [st |-> st, next |-> it + 1, rewound |-> FALSE]

\* mutant: steps [3] and [4] run whatever "list vms" answered
LoadSessionsResult_alwaysReconciles(st, machines, listOk) ==
    LET loaded == LoadFromDisk(st)
    IN  ReleaseLost(
            RemoveExpired(loaded, VBoxVms(machines), MapBegin(loaded.sessions)), 1)

\* loadSessions() with the exit code of "list vms" (0 or not) as input
LoadSessionsResult(st, machines, listOk) ==
    LET loaded == LoadFromDisk(st)
    IN  IF ~listOk THEN loaded
        ELSE ReleaseLost(
                 RemoveExpired(loaded, VBoxVms(machines), MapBegin(loaded.sessions)), 1)

LoadSessionsStatus(listOk) == IF listOk THEN "HVE_OK" ELSE "HVE_QUERY_ERROR"

\* ---------------------------------------------------------------- abort
AbortAll(st) ==
    [st EXCEPT !.aborted = {st.openSessions[j] : j \in 1..Len(st.openSessions)},
               !.openSessions = <<>>,
               !.sessions = EmptyMap]


\* ---------------------------------------------------------------- registry actions
\* the process has not died in a call
Alive == call.ret # "crash"
\* a loadSessions() pass is between its step [2] and its return
PassRunning == call.ret = "inPass"

Commit(st, op) ==
    /\ Alive
    /\ ~PassRunning
    /\ sessions' = st.sessions
    /\ openSessions' = st.openSessions
    /\ heap' = st.heap
    /\ disk' = st.disk
    /\ lastOp' = op
    /\ call' = NoCall
    /\ UNCHANGED <<vms, concVars, hv, host>>

\* allocate(): a fresh guid, a persisted descriptor, a registered session
Allocate ==
    \E guid \in FreshGUIDs(RegState) :
        /\ FreeObjects(heap) # {}
        /\ LET o == Min(FreeObjects(heap))
           IN  Commit(AllocateSession(RegState, guid, o),
                      Op("allocate", o, "session", {}, {}))

\* HVInstance::sessionOpen: the session looked up (reuse) or allocated (create),
\* the caller's parameters stored, instances incremented, the session put on the
\* open list when no entry of that uuid is there.
HVSessionOpen(st, uuid, o, named) ==
    [st EXCEPT !.disk[uuid].name = @ \/ named,
               !.heap[o].instances = @ + 1,
               !.openSessions = IF OpenIndexOf(st.heap, @, uuid) = None
                                THEN Append(@, o) ELSE @]

\* VBoxInstance::sessionOpen: the parent's open, then vbs->open() refreshes the state
SessionOpen(st, uuid, o, named, refreshed) ==
    [HVSessionOpen(st, uuid, o, named) EXCEPT !.disk[uuid].state = refreshed]

OpenExisting ==
    \E uuid \in DOMAIN sessions, named \in BOOLEAN, refreshed \in SessionStates :
        LET o == sessions[uuid]
        IN  /\ heap[o].instances < MaxInstances
            /\ Commit(SessionOpen(RegState, uuid, o, named, refreshed),
                      Op("open", o, "session", {}, {}))

OpenNew ==
    \E guid \in FreshGUIDs(RegState), named \in BOOLEAN, refreshed \in SessionStates :
        /\ FreeObjects(heap) # {}
        /\ LET o == Min(FreeObjects(heap))
           IN  Commit(SessionOpen(AllocateSession(RegState, guid, o), guid, o,
                                  named, refreshed),
                      Op("open", o, "session", {}, {}))

\* close(session) on any session object a caller still holds
Close ==
    \E o \in LiveObjects(heap) :
        /\ heap[o].instances > -NegDepth
        /\ LET st == SessionClose(RegState, o)
           IN  Commit(st, OpAfter("close", o, "void", st.aborted, st.notified,
                                  /\ lastOp.op = "open"
                                  /\ lastOp.arg = o
                                  /\ heap[o].instances = 1))

\* delete(session) on any session object a caller still holds
Delete ==
    \E o \in LiveObjects(heap) :
        LET st == SessionDelete(RegState, heap[o].uuid)
        IN  Commit(st, OpAfter("delete", o, "void", st.aborted, st.notified,
                               lastOp.op = "delete" /\ lastOp.arg = o))

\* sessionByVBID(id) with the id of any machine: the registry is left as it is
FindByExternalId ==
    \E id \in VBoxIds :
        LET found == SessionByVBID(RegState, id)
        IN  Commit(RegState,
                   [Op("sessionByVBID", found, IF found = None THEN "none" ELSE "session",
                       {}, {}) EXCEPT !.id = id])

LoadSessions ==
    \E listOk \in BOOLEAN :
        /\ Cardinality(FreeObjects(heap)) >= Cardinality(ValidDescriptors(disk))
        /\ LET st == LoadSessionsResult(RegState, vms, listOk)
           IN  Commit(st, Op("loadSessions", None, LoadSessionsStatus(listOk),
                             st.aborted, st.notified))

\* loadSessions() one loop iteration at a time.  Steps [1] and [2]: the reload,
\* "list vms" and the map of the live machines; a failed "list vms" returns.
PassBegin ==
    \E listOk \in BOOLEAN :
        /\ Alive
        /\ ~PassRunning
        /\ Cardinality(FreeObjects(heap)) >= Cardinality(ValidDescriptors(disk))
        /\ LET st == LoadFromDisk(RegState)
           IN  /\ sessions' = st.sessions
               /\ heap' = st.heap
               /\ call' = IF listOk
                          THEN [NoCall EXCEPT
                                  !.fn = "loadSessions", !.ret = "inPass",
                                  !.in = [phase |-> 3, it |-> MapBegin(st.sessions),
                                          vboxVms |-> VBoxVms(vms)],
                                  !.out = [notified |-> {}, rewound |-> FALSE]]
                          ELSE [NoCall EXCEPT !.fn = "loadSessions",
                                              !.ret = "HVE_QUERY_ERROR"]
        /\ lastOp' = Op("loadSessions", None,
                        IF listOk THEN "running" ELSE "HVE_QUERY_ERROR", {}, {})
        /\ UNCHANGED <<openSessions, disk, vms, concVars, hv, host>>

\* one iteration of the loop of step [3]; at its end step [4] starts at begin()
PassRemoveExpired ==
    /\ PassRunning
    /\ call.in.phase = 3
    /\ LET r == RemoveExpiredStep([RegState EXCEPT !.notified = call.out.notified],
                                  call.in.vboxVms, call.in.it)
       IN  /\ sessions' = r.st.sessions
           /\ openSessions' = r.st.openSessions
           /\ heap' = r.st.heap
           /\ disk' = r.st.disk
           /\ call' = [call EXCEPT
                         !.in.phase = IF r.next = None THEN 4 ELSE 3,
                         !.in.it = IF r.next = None THEN 1 ELSE r.next,
                         !.out.notified = r.st.notified,
                         !.out.rewound = @ \/ r.rewound]
    /\ lastOp' = Op("loadSessions", None, "running", {}, {})
    /\ UNCHANGED <<vms, concVars, hv, host>>

\* one iteration of the loop of step [4]; at its end the pass returns
PassReleaseLost ==
    /\ PassRunning
    /\ call.in.phase = 4
    /\ LET r == ReleaseLostStep([RegState EXCEPT !.notified = call.out.notified],
                                call.in.it)
       IN  /\ sessions' = r.st.sessions
           /\ openSessions' = r.st.openSessions
           /\ heap' = r.st.heap
           /\ disk' = r.st.disk
           /\ call' = [call EXCEPT
                         !.ret = IF r.next = None THEN "HVE_OK" ELSE "inPass",
                         !.in.it = IF r.next = None THEN @ ELSE r.next,
                         !.out.notified = r.st.notified,
                         !.out.rewound = @ \/ r.rewound]
           /\ lastOp' = Op("loadSessions", None,
                           IF r.next = None THEN "HVE_OK" ELSE "running",
                           {}, r.st.notified)
    /\ UNCHANGED <<vms, concVars, hv, host>>

Abort ==
    \E st \in {AbortAll(RegState)} :
        Commit(st, Op("abort", None, "void", st.aborted, st.notified))

\* ---------------------------------------------------------------- environment
\* the session's state machine creates its machine: the hypervisor assigns an id
\* that no machine and no descriptor uses, and the session stores it as "vboxid"
FSMCreateVM ==
    \E uuid \in DOMAIN sessions, v \in VBoxIds :
        /\ disk[uuid].vboxid = NoVBoxId
        /\ vms[v] = "absent"
        /\ \A u \in DOMAIN disk : disk[u].vboxid # v
        /\ disk' = [disk EXCEPT ![uuid].vboxid = v]
        /\ vms' = [vms EXCEPT ![v] = "live"]
        /\ lastOp' = Op("env", None, "void", {}, {})
        /\ UNCHANGED <<sessions, openSessions, heap>>
        /\ UNCHANGED <<concVars, readyVars>>

\* a machine is destroyed, or becomes inaccessible, outside of this program
VMChange ==
    \E v \in VBoxIds, s \in {"absent", "inaccessible"} :
        /\ vms[v] = "live"
        /\ vms' = [vms EXCEPT ![v] = s]
        /\ lastOp' = Op("env", None, "void", {}, {})
        /\ UNCHANGED <<sessions, openSessions, heap, disk>>
        /\ UNCHANGED <<concVars, readyVars>>

\* the last HVSessionPtr to an object that is neither registered nor open is dropped
ReleaseHandle ==
    \E o \in LiveObjects(heap) :
        /\ \A u \in DOMAIN sessions : sessions[u] # o
        /\ \A j \in 1..Len(openSessions) : openSessions[j] # o
        /\ heap' = [heap EXCEPT ![o] = FreeObject]
        /\ lastOp' = Op("env", None, "void", {}, {})
        /\ UNCHANGED <<sessions, openSessions, disk, vms>>
        /\ UNCHANGED <<concVars, readyVars>>

\* ---------------------------------------------------------------- named mutexes
\* lock names: "generic", "session-update" and one per machine uuid
GenericLock == <<"generic", None>>
SessionUpdateLock == <<"session-update", None>>
UuidLock(v) == <<"uuid", v>>
LockNames == {GenericLock, SessionUpdateLock} \cup {UuidLock(v) : v \in VBoxIds}

\* NAMED_MUTEX_LOCK(name): blocks until the mutex of that name is free, then holds it
NamedMutexLock(mx, name, t) == [mx EXCEPT ![name] = t]
NamedMutexFree(mx, name) == mx[name] = None
\* NAMED_MUTEX_UNLOCK: the end of the locked region, the thread's mutex is released
NamedMutexUnlock(mx, t) == [n \in LockNames |-> IF mx[n] = t THEN None ELSE mx[n]]
\* mutant: leaving the function from inside a locked region releases nothing
ScopeExit_leaks(mx, t) == mx
\* a return from inside a locked region: the mutex is released on that exit path too
ScopeExit(mx, t) == [n \in LockNames |-> IF mx[n] = t THEN None ELSE mx[n]]

\* ---------------------------------------------------------------- the functions, as statements
Stmt(kind, lock, cmd, target) == [k |-> kind, lock |-> lock, cmd |-> cmd, target |-> target]
StmtLock(name) == Stmt("lock", name, "", None)
StmtUnlock == Stmt("unlock", GenericLock, "", None)
\* this->exec(cmd ...) on a machine (target) or on no machine in particular (None)
StmtExec(cmd, target) == Stmt("exec", GenericLock, cmd, target)
\* if (ans != 0) return ...
StmtIfFailedReturn == Stmt("ifFailedReturn", GenericLock, "", None)
\* a return that depends on the data just read
StmtMayReturn == Stmt("mayReturn", GenericLock, "", None)
StmtLoadFromDisk == Stmt("loadFromDisk", GenericLock, "", None)
StmtReconcile == Stmt("reconcile", GenericLock, "", None)

validateIntegrity ==
    << StmtMayReturn,                               \* !vboxExists()
       StmtExec("--version", None),
       StmtMayReturn,                               \* WARNING, ERROR, stderr
       StmtExec("list systemproperties", None) >>

getMachineInfo(v) ==
    << StmtLock(UuidLock(v)), StmtExec("showvminfo", v), StmtUnlock, StmtIfFailedReturn >>

getAllProperties(v) ==
    << StmtLock(UuidLock(v)), StmtExec("guestproperty enumerate", v), StmtUnlock >>

getProperty(v) ==
    << StmtLock(UuidLock(v)), StmtExec("guestproperty get", v), StmtUnlock,
       StmtIfFailedReturn >>

getCapabilities ==
    << StmtLock(GenericLock), StmtExec("list hostcpuids", None), StmtUnlock,
       StmtIfFailedReturn, StmtMayReturn,
       StmtLock(GenericLock), StmtExec("list systemproperties", None), StmtUnlock,
       StmtIfFailedReturn, StmtMayReturn >>

hasExtPack ==
    << StmtLock(GenericLock), StmtExec("list extpacks", None), StmtUnlock >>

installExtPack ==
    hasExtPack \o
    << StmtMayReturn,                               \* already installed
       StmtMayReturn,                               \* configuration, download, checksum
       StmtLock(GenericLock), StmtExec("extpack install", None), StmtUnlock,
       StmtIfFailedReturn >>

\* mutant: the pass is made without the "session-update" mutex
loadSessions_unlocked ==
    << StmtMayReturn,
       StmtLoadFromDisk,
       StmtExec("list vms", None),
       StmtIfFailedReturn,
       StmtReconcile >>

loadSessions ==
    << StmtLock(SessionUpdateLock),
       StmtLoadFromDisk,
       StmtExec("list vms", None),
       StmtIfFailedReturn,
       StmtReconcile >>

Functions == {"validateIntegrity", "getMachineInfo", "getAllProperties", "getProperty",
              "getCapabilities", "hasExtPack", "installExtPack", "loadSessions"}
OnMachine == {"getMachineInfo", "getAllProperties", "getProperty"}

Body(fn, v) ==
    CASE fn = "validateIntegrity" -> validateIntegrity
      [] fn = "getMachineInfo" -> getMachineInfo(v)
      [] fn = "getAllProperties" -> getAllProperties(v)
      [] fn = "getProperty" -> getProperty(v)
      [] fn = "getCapabilities" -> getCapabilities
      [] fn = "hasExtPack" -> hasExtPack
      [] fn = "installExtPack" -> installExtPack
      [] fn = "loadSessions" -> loadSessions
      [] OTHER -> << >>

\* at = 0: the thread is in its caller, fn is the function it last returned from
\* and ans tells whether that function ran to its end
Idle == [fn |-> "idle", at |-> 0, vm |-> None, ans |-> TRUE]
NotRunning == [cmd |-> "", target |-> None]

InCaller(t) == pc[t].at = 0
InBody(t) == ~InCaller(t) /\ pc[t].at <= Len(Body(pc[t].fn, pc[t].vm))
Cur(t) == Body(pc[t].fn, pc[t].vm)[pc[t].at]
Advance(t) == [pc EXCEPT ![t].at = @ + 1]
\* the thread is back in its caller; ok tells whether the function ran to its end
Returned(t, ok) == [pc EXCEPT ![t] = [Idle EXCEPT !.fn = pc[t].fn, !.ans = ok]]

\* ---------------------------------------------------------------- thread steps
Call(t) ==
    /\ InCaller(t)
    /\ \E fn \in Functions, v \in VBoxIds :
          pc' = [pc EXCEPT ![t] = [fn |-> fn, at |-> 1,
                                   vm |-> IF fn \in OnMachine THEN v ELSE None,
                                   ans |-> TRUE]]
    /\ UNCHANGED <<mutex, running, regVars, readyVars>>

LockStep(t) ==
    /\ InBody(t) /\ Cur(t).k = "lock"
    /\ NamedMutexFree(mutex, Cur(t).lock)
    /\ mutex' = NamedMutexLock(mutex, Cur(t).lock, t)
    /\ pc' = Advance(t)
    /\ UNCHANGED <<running, regVars, readyVars>>

UnlockStep(t) ==
    /\ InBody(t) /\ Cur(t).k = "unlock"
    /\ mutex' = NamedMutexUnlock(mutex, t)
    /\ pc' = Advance(t)
    /\ UNCHANGED <<running, regVars, readyVars>>

ExecBegin(t) ==
    /\ InBody(t) /\ Cur(t).k = "exec"
    /\ running[t] = NotRunning
    /\ running' = [running EXCEPT ![t] = [cmd |-> Cur(t).cmd, target |-> Cur(t).target]]
    /\ UNCHANGED <<pc, mutex, regVars, readyVars>>

ExecEnd(t) ==
    /\ InBody(t) /\ Cur(t).k = "exec"
    /\ running[t] # NotRunning
    /\ running' = [running EXCEPT ![t] = NotRunning]
    /\ \E ok \in BOOLEAN : pc' = [pc EXCEPT ![t].at = @ + 1, ![t].ans = ok]
    /\ UNCHANGED <<mutex, regVars, readyVars>>

IfFailedReturn(t) ==
    /\ InBody(t) /\ Cur(t).k = "ifFailedReturn"
    /\ IF pc[t].ans
       THEN pc' = Advance(t) /\ UNCHANGED mutex
       ELSE pc' = Returned(t, FALSE) /\ mutex' = ScopeExit(mutex, t)
    /\ UNCHANGED <<running, regVars, readyVars>>

MayReturn(t) ==
    /\ InBody(t) /\ Cur(t).k = "mayReturn"
    /\ \/ pc' = Advance(t) /\ UNCHANGED mutex
       \/ pc' = Returned(t, FALSE) /\ mutex' = ScopeExit(mutex, t)
    /\ UNCHANGED <<running, regVars, readyVars>>

\* the registry work of loadSessions(): [1] before "list vms", [2]-[4] after it
RegistryStep(t) ==
    /\ InBody(t) /\ Cur(t).k \in {"loadFromDisk", "reconcile"}
    /\ Cardinality(FreeObjects(heap)) >= Cardinality(ValidDescriptors(disk))
    /\ LET st == IF Cur(t).k = "loadFromDisk"
                 THEN LoadFromDisk(RegState)
                 ELSE ReleaseLost(RemoveExpired(RegState, VBoxVms(vms),
                                                MapBegin(sessions)), 1)
       IN  /\ sessions' = st.sessions
           /\ openSessions' = st.openSessions
           /\ heap' = st.heap
           /\ disk' = st.disk
           /\ lastOp' = Op("loadSessions", None, "running", st.aborted, st.notified)
    /\ pc' = Advance(t)
    /\ UNCHANGED <<vms, mutex, running, readyVars>>

\* the function's last statement is done: return
Return(t) ==
    /\ ~InCaller(t) /\ ~InBody(t)
    /\ pc' = Returned(t, TRUE)
    /\ mutex' = ScopeExit(mutex, t)
    /\ UNCHANGED <<running, regVars, readyVars>>

\* ---------------------------------------------------------------- validateIntegrity
\* a line of the "--version" output: which of the tokens the code looks for it holds
VersionLines == [warning : BOOLEAN, vboxdrv : BOOLEAN, error : BOOLEAN]
VersionOutputs == UNION {[1..n -> VersionLines] : n \in 0..MaxLines}
\* vboxExists(), the output lines and the standard error of "--version"
\* (nothing is run, and nothing read, when the hypervisor is gone)
VersionInputs ==
    {in \in [exists : BOOLEAN, out : VersionOutputs, err : BOOLEAN] :
        ~in.exists => (in.out = << >> /\ ~in.err)}

\* the loop over the output lines; fatal is a `return false` from inside the loop
RECURSIVE ScanVersion(_, _, _, _)
ScanVersion(out, sit, drv, linux) ==
    IF sit > Len(out) THEN [fatal |-> FALSE, drv |-> drv]
    ELSE LET recoverable == linux /\ out[sit].vboxdrv
             drv1 == IF out[sit].warning /\ recoverable THEN FALSE ELSE drv
         IN  IF out[sit].warning /\ ~recoverable THEN [fatal |-> TRUE, drv |-> drv]
             ELSE IF out[sit].error THEN [fatal |-> TRUE, drv |-> drv1]
             ELSE ScanVersion(out, sit + 1, drv1, linux)

\* mutant: the standard error of "--version" is not looked at
ValidateIntegrity_ignoresStderr(flags, linux, in) ==
    IF ~in.exists
    THEN [ret |-> FALSE, hv |-> [flags EXCEPT !.reflectionValid = FALSE]]
    ELSE LET scan == ScanVersion(in.out, 1,
                                 IF linux THEN TRUE ELSE flags.vboxDrvKernelLoaded, linux)
             scanned == [flags EXCEPT !.vboxDrvKernelLoaded = scan.drv]
         IN  IF scan.fatal
             THEN [ret |-> FALSE, hv |-> scanned]
             ELSE [ret |-> TRUE, hv |-> [scanned EXCEPT !.reflectionValid = TRUE]]

\* validateIntegrity(): the result and the flags it leaves
ValidateIntegrity(flags, linux, in) ==
    IF ~in.exists
    THEN [ret |-> FALSE, hv |-> [flags EXCEPT !.reflectionValid = FALSE]]
    ELSE LET scan == ScanVersion(in.out, 1,
                                 IF linux THEN TRUE ELSE flags.vboxDrvKernelLoaded, linux)
             scanned == [flags EXCEPT !.vboxDrvKernelLoaded = scan.drv]
         IN  IF scan.fatal \/ in.err
             THEN [ret |-> FALSE, hv |-> scanned]
             ELSE [ret |-> TRUE, hv |-> [scanned EXCEPT !.reflectionValid = TRUE]]

\* ---------------------------------------------------------------- hasExtPack, installExtPack
\* hasExtPack(): "list extpacks" names the pack when it is installed and the
\* command gave its output
\* mutant: the pack is never found
HasExtPack_never(h, listed) == FALSE
HasExtPack(h, listed) == h.extPack /\ listed

FetchCodes == {"HVE_OK", "HVE_NOT_VALIDATED", "HVE_NOT_TRUSTED", "HVE_IO_ERROR"}
DownloadCodes == {"HVE_OK", "HVE_IO_ERROR"}
\* what the steps of an installation answer: "list extpacks" gave its output,
\* the code of the configuration fetch, the two keys being in the configuration,
\* the code of the download, the checksums being equal, "extpack install" exiting
\* with 0.  A step that comes after the first failing one is not run, and its
\* answer is held at success.
InstallInputs ==
    {in \in [listed : BOOLEAN, fetch : FetchCodes, hasUrl : BOOLEAN,
             hasChecksum : BOOLEAN, download : DownloadCodes,
             checksumOk : BOOLEAN, installOk : BOOLEAN] :
        /\ in.fetch # "HVE_OK" => in.hasUrl
        /\ ~(in.fetch = "HVE_OK" /\ in.hasUrl) => in.hasChecksum
        /\ ~(in.fetch = "HVE_OK" /\ in.hasUrl /\ in.hasChecksum)
              => in.download = "HVE_OK"
        /\ ~(in.fetch = "HVE_OK" /\ in.hasUrl /\ in.hasChecksum
                /\ in.download = "HVE_OK") => in.checksumOk
        /\ ~(in.fetch = "HVE_OK" /\ in.hasUrl /\ in.hasChecksum
                /\ in.download = "HVE_OK" /\ in.checksumOk) => in.installOk}

\* checksum.compare( data->get(kExtpackChecksum) ) == 0
\* mutant: the checksum is not looked at
ChecksumMatches_always(in) == TRUE
ChecksumMatches(in) == in.checksumOk

\* data->contains( kExtpackUrl ), data->contains( kExtpackChecksum )
\* mutant: the keys are taken to be there
HasKey_always(in, key) == TRUE
HasKey(in, key) == IF key = "url" THEN in.hasUrl ELSE in.hasChecksum

\* downloadFile() has written the artifact tmpExtpackFile
\* mutant: no artifact is left
Downloaded_noFile(h) == h
Downloaded(h) == [h EXCEPT !.tmpFile = TRUE]

\* installExtPack(keystore, downloadProvider, pf): the status returned, the host
\* it leaves and the calls made, appended to tr; task names the progress task
InstallExtPack(h, tr, pf, task, in) ==
    LET t1 == tr \o Rep(pf, task, "doing", "Preparing for extension pack installation")
                 \o <<Ev("exec", "list extpacks", "")>>
        t2 == t1 \o Rep(pf, task, "begin", "Downloading hypervisor configuration")
                 \o <<Ev("call", "downloadHypervisorConfig", "")>>
        k1 == t2 \o <<Ev("call", "contains", "url")>>
        k2 == k1 \o <<Ev("call", "contains", "checksum")>>
        t3 == k2 \o Rep(pf, task, "begin", "Downloading extension pack")
                 \o <<Ev("call", "downloadFile", "")>>
        t4 == t3 \o Rep(pf, task, "doing", "Validating extension pack integrity")
                 \o <<Ev("call", "sha256_file", "")>>
        t5 == t4 \o Rep(pf, task, "done", "Extension pack integrity validated")
                 \o Rep(pf, task, "doing", "Installing extension pack")
                 \o <<Ev("exec", "extpack install", "")>>
        t6 == t5 \o Rep(pf, task, "done", "Installed extension pack")
                 \o Rep(pf, task, "doing", "Cleaning-up")
                 \o <<Ev("call", "remove", "")>>
                 \o Rep(pf, task, "done", "Cleaned-up")
                 \o Rep(pf, task, "complete", "Extension pack installed successfully")
        downloaded == Downloaded(h)
        Out(ret, hh, t, what, label) ==
            [ret |-> ret, host |-> hh, trace |-> t \o Rep(pf, task, what, label)]
    IN  IF HasExtPack(h, in.listed)
        THEN Out("HVE_ALREADY_EXISTS", h, t1, "complete", "Already installed")
        ELSE IF in.fetch # "HVE_OK"
        THEN IF in.fetch \in {"HVE_NOT_VALIDATED", "HVE_NOT_TRUSTED"}
             THEN Out(in.fetch, h, t2, "fail",
                      "Hypervisor configuration integrity check failed")
             ELSE Out(in.fetch, h, t2, "fail", "Unable to fetch hypervisor configuration")
        ELSE IF ~HasKey(in, "url")
        THEN Out("HVE_EXTERNAL_ERROR", h, k1, "fail", "No extensions package URL found")
        ELSE IF ~HasKey(in, "checksum")
        THEN Out("HVE_EXTERNAL_ERROR", h, k2, "fail",
                 "No extensions package checksum found")
        ELSE IF in.download # "HVE_OK"
        THEN Out(in.download, h, t3, "fail", "Unable to download extension pack")
        ELSE IF ~ChecksumMatches(in)
        THEN Out("HVE_NOT_VALIDATED", downloaded, t4, "fail",
                 "Extension pack integrity was not validated")
        ELSE IF ~in.installOk
        THEN Out("HVE_EXTERNAL_ERROR", downloaded, t5, "fail",
                 "Extension pack failed to install")
        ELSE [ret |-> "HVE_OK",
              host |-> [downloaded EXCEPT !.extPack = TRUE, !.tmpFile = FALSE],
              trace |-> t6]

\* ---------------------------------------------------------------- waitTillReady
\* the call in progress: c.ret is "running" until the call returns ("true",
\* "false") or the process dies ("crash")
Running(c) == c.ret = "running"

\* if (pf) pf->fail(label); return false;
FailWith(c, pf, label) ==
    [c EXCEPT !.trace = @ \o Rep(pf, "pf", "fail", label), !.ret = "false"]

\* ui->alert(...); if (pf) pf->fail(label); return false;  With an empty ui
\* pointer the dereference is undefined: the process dies, or the call goes on.
AlertAndFail(c, pf, ui, label) ==
    IF ui
    THEN {FailWith([c EXCEPT !.trace = Append(@, Ev("ui", "alert", label))], pf, label)}
    ELSE {[c EXCEPT !.ret = "crash"], FailWith(c, pf, label)}

\* the driver block
DriverPhase(c, pf, ui) ==
    IF ~c.host.linux \/ c.hv.vboxDrvKernelLoaded THEN {c}
    ELSE LET asked == IF ui
                      THEN [c EXCEPT !.trace = Append(@, Ev("ui", "confirm",
                                                 "Virtualbox kernel driver problem"))]
                      ELSE c
             refused == IF ui
                        THEN AlertAndFail(asked, pf, ui,
                                          "vboxdrv kernel module is not loaded")
                        ELSE {}
             noTerminal == AlertAndFail(asked, pf, ui,
                                        "Could not find a usable terminal emulator")
             ran == [asked EXCEPT !.trace = Append(@, Ev("system", "run",
                                                "sudo /etc/init.d/vboxdrv setup"))]
             setupFailed == AlertAndFail(ran, pf, ui,
                                         "Virtualbox driver installation failed")
             checks == {ValidateIntegrity(ran.hv, c.host.linux, in) : in \in VersionInputs}
             rechecked(v) == [ran EXCEPT !.hv = v.hv,
                                         !.trace = Append(@, Ev("call",
                                                      "validateIntegrity", ""))]
             after == UNION {IF v.ret /\ v.hv.vboxDrvKernelLoaded
                             THEN {rechecked(v)}
                             ELSE AlertAndFail(rechecked(v), pf, ui,
                                    "Could not validate hypervisor integrity after install")
                             : v \in checks}
         IN  refused \cup noTerminal \cup setupFailed \cup after

DriverDone(c, pf) ==
    {[c EXCEPT !.trace = @ \o Rep(pf, "pf", "done", "VirtualBox driver in place")]}

\* mutant: the sessions are loaded by every call
LoadPhase_always(c, pf, machines) ==
    {[c EXCEPT !.st = LoadSessionsResult(c.st, machines, listOk),
               !.trace = @ \o Rep(pf, "pf", "begin", "Loading sessions")
                           \o <<Ev("ret", "loadSessions", LoadSessionsStatus(listOk))>>,
               !.hv.sessionLoaded = TRUE] : listOk \in BOOLEAN}

\* the delayed session loading: the status of loadSessions() is not looked at
LoadPhase(c, pf, machines) ==
    IF ~c.hv.sessionLoaded
    THEN {[c EXCEPT !.st = LoadSessionsResult(c.st, machines, listOk),
                    !.trace = @ \o Rep(pf, "pf", "begin", "Loading sessions")
                                \o <<Ev("ret", "loadSessions", LoadSessionsStatus(listOk))>>,
                    !.hv.sessionLoaded = TRUE] : listOk \in BOOLEAN}
    ELSE {[c EXCEPT !.trace = @ \o Rep(pf, "pf", "done", "Sessions are loaded")]}

\* the extension pack: the status of installExtPack() is not looked at
ExtPackPhase(c, pf, ui) ==
    LET listed == [c EXCEPT !.trace = Append(@, Ev("exec", "list extpacks", ""))]
        present == {[listed EXCEPT !.trace = @ \o Rep(pf, "pf", "done",
                                                     "Extension pack is installed")]}
        begun == [listed EXCEPT !.trace = @ \o Rep(pf, "pf", "begin",
                                                   "Installing extension pack")]
        asked == IF ui
                 THEN [begun EXCEPT !.trace = Append(@, Ev("ui", "confirmLicense",
                         "VirtualBox Personal Use and Evaluation License (PUEL)"))]
                 ELSE begun
        denied == IF ui THEN {FailWith(asked, pf, "User denied Oracle PUEL license")}
                  ELSE {}
        installs == {InstallExtPack(asked.host, asked.trace, pf, "pfInstall", in)
                        : in \in InstallInputs}
        installed == {[asked EXCEPT !.host = r.host,
                                    !.trace = Append(r.trace,
                                                Ev("ret", "installExtPack", r.ret))]
                        : r \in installs}
    IN  UNION {IF HasExtPack(c.host, l) THEN present ELSE denied \cup installed
                 : l \in BOOLEAN}

ReadyDone(c, pf) ==
    {[c EXCEPT !.trace = @ \o Rep(pf, "pf", "complete", "Hypervisor is ready"),
               !.ret = "true"]}

\* waitTillReady(keystore, pf, ui): every way the call can end; a phase is run
\* on the outcomes of the phases before it that have not returned
WaitTillReadyOutcomes(c, pf, ui, machines) ==
    LET driver == DriverPhase(c, pf, ui)
        driverDone == UNION {IF Running(d) THEN DriverDone(d, pf) ELSE {d}
                                : d \in driver}
        loaded == UNION {IF Running(d) THEN LoadPhase(d, pf, machines) ELSE {d}
                            : d \in driverDone}
        extPack == UNION {IF Running(d) THEN ExtPackPhase(d, pf, ui) ELSE {d}
                             : d \in loaded}
    IN  UNION {IF Running(d) THEN ReadyDone(d, pf) ELSE {d} : d \in extPack}

\* ---------------------------------------------------------------- readiness actions
WaitTillReady ==
    \E pf \in BOOLEAN, ui \in BOOLEAN :
        /\ Alive
        /\ Cardinality(FreeObjects(heap)) >= Cardinality(ValidDescriptors(disk))
        /\ \E c \in WaitTillReadyOutcomes(
                        [hv |-> hv, host |-> host, st |-> RegState,
                         trace |-> << >>, ret |-> "running"], pf, ui, vms) :
              /\ hv' = c.hv
              /\ host' = c.host
              /\ call' = [NoCall EXCEPT !.fn = "waitTillReady", !.pf = pf, !.ui = ui,
                                        !.ret = c.ret, !.trace = c.trace]
              /\ sessions' = c.st.sessions
              /\ openSessions' = c.st.openSessions
              /\ heap' = c.st.heap
              /\ disk' = c.st.disk
              /\ lastOp' = Op("waitTillReady", None, "bool", c.st.aborted, c.st.notified)
        /\ UNCHANGED <<vms, concVars>>

ValidateIntegrityCall ==
    \E v \in {ValidateIntegrity(hv, host.linux, in) : in \in VersionInputs} :
            /\ Alive
            /\ hv' = v.hv
            /\ call' = [NoCall EXCEPT !.fn = "validateIntegrity",
                                      !.ret = IF v.ret THEN "true" ELSE "false"]
            /\ lastOp' = Op("validateIntegrity", None, "bool", {}, {})
            /\ UNCHANGED <<host, sessions, openSessions, heap, disk, vms, concVars>>

InstallExtPackCall ==
    \E pf \in BOOLEAN, in \in InstallInputs :
        LET r == InstallExtPack(host, << >>, pf, "pf", in)
        IN  /\ Alive
            /\ host' = r.host
            /\ call' = [NoCall EXCEPT !.fn = "installExtPack", !.pf = pf, !.in = in,
                                      !.ret = r.ret, !.trace = r.trace]
            /\ lastOp' = Op("installExtPack", None, "int", {}, {})
            /\ UNCHANGED <<hv, sessions, openSessions, heap, disk, vms, concVars>>

\* ---------------------------------------------------------------- getMachineInfo
\* exit codes of a hypervisor command
ExitCodes == {0, 1, 255}
\* the output of "showvminfo": lines "key: value", as <<key, value>>
InfoOutputs == { << >>,
                 << <<"Name", "vm">> >>,
                 << <<"Name", "vm">>, <<"State", "running">> >> }

\* ntos<int>( ans ): the decimal digits of a number that is not negative
DecimalDigits == <<"0", "1", "2", "3", "4", "5", "6", "7", "8", "9">>
RECURSIVE Ntos(_)
Ntos(n) ==
    IF n < 10 THEN <<DecimalDigits[n + 1]>>
    ELSE Ntos(n \div 10) \o <<DecimalDigits[(n % 10) + 1]>>

\* tokenize( &lines, ':' ): a map of the keys to the values of the lines
Tokenize(lines) ==
    LET keys == {lines[i][1] : i \in 1..Len(lines)}
    IN  [k \in keys |-> lines[Min({i \in 1..Len(lines) : lines[i][1] = k})][2]]

\* dat.insert(make_pair(":ERROR:", ntos<int>( ans )))
\* mutant: nothing is put in the map
ErrorInfo_empty(ans) == EmptyMap
ErrorInfo(ans) == MapPut(EmptyMap, ":ERROR:", Ntos(ans))

\* getMachineInfo(uuid, timeout) on thread t: the mutexes it leaves and the map
\* it returns, from the exit code and the output of "showvminfo"
GetMachineInfo(mx, t, uuid, ans, lines) ==
    LET locked == NamedMutexLock(mx, UuidLock(uuid), t)
        unlocked == NamedMutexUnlock(locked, t)
    IN  [mutex |-> unlocked,
         dat |-> IF ans # 0 THEN ErrorInfo(ans) ELSE Tokenize(lines)]

\* ---------------------------------------------------------------- getAllProperties
\* a line is a sequence of characters
AnchorName == <<"N", "a", "m", "e", ":", " ">>
AnchorValue == <<",", " ", "v", "a", "l", "u", "e", ":">>
AnchorTimestamp == <<",", " ", "t", "i", "m", "e", "s", "t", "a", "m", "p", ":">>

\* std::string::npos
NPos == -1
\* size_t arithmetic, at a width wider than every line (64 bits in the build)
SizeMod == 2 ^ 16
SizeT(n) == n % SizeMod

\* line.find(pat): the position, from 0, of the first occurrence, or npos
Find(line, pat) ==
    LET hits == {i \in 0..(Len(line) - Len(pat)) :
                    \A j \in 1..Len(pat) : line[i + j] = pat[j]}
    IN  IF hits = {} THEN NPos ELSE Min(hits)

\* line.substr(pos, n): std::out_of_range when pos is beyond the end, else the
\* characters from pos, n of them or as many as there are
Substr(line, pos, n) ==
    IF pos > Len(line) THEN [threw |-> TRUE, str |-> << >>]
    ELSE [threw |-> FALSE,
          str |-> SubSeq(line, pos + 1, Min({pos + n, Len(line)}))]

\* the body of the loop over the lines for one line
ParseProperty(line) ==
    LET kBegin == Find(line, AnchorName)
        kEnd == Find(line, AnchorValue)
        vEnd == Find(line, AnchorTimestamp)
        vKey == Substr(line, kBegin + 6, SizeT(kEnd - (kBegin + 6)))
        vBegin == kEnd + 9
        vValue == Substr(line, vBegin, SizeT(vEnd - vBegin))
    IN  IF kBegin = NPos \/ kEnd = NPos \/ vEnd = NPos THEN [kind |-> "continue"]
        ELSE IF vKey.threw \/ vValue.threw THEN [kind |-> "throw"]
        ELSE [kind |-> "store", key |-> vKey.str, value |-> vValue.str]

\* the loop over the lines: the map built, and whether an exception ended it
RECURSIVE ParseProperties(_, _, _)
ParseProperties(lines, it, ans) ==
    IF it > Len(lines) THEN [threw |-> FALSE, ans |-> ans]
    ELSE LET p == ParseProperty(lines[it])
         IN  IF p.kind = "continue" THEN ParseProperties(lines, it + 1, ans)
             ELSE IF p.kind = "throw" THEN [threw |-> TRUE, ans |-> ans]
             ELSE ParseProperties(lines, it + 1, MapPut(ans, p.key, p.value))

\* getAllProperties(uuid) on thread t, from the exit code and the output of
\* "guestproperty enumerate"
GetAllProperties(mx, t, uuid, code, lines) ==
    LET locked == NamedMutexLock(mx, UuidLock(uuid), t)
        parsed == IF code = 0 THEN ParseProperties(lines, 1, EmptyMap)
                  ELSE [threw |-> FALSE, ans |-> EmptyMap]
    IN  [mutex |-> IF parsed.threw THEN ScopeExit(locked, t)
                   ELSE NamedMutexUnlock(locked, t),
         threw |-> parsed.threw,
         ans |-> parsed.ans]

\* the lines of the model: the three anchors, any of them left out, in any
\* order; the key may be empty, the value may be empty or lack its leading
\* blank, the timestamp is always there
PropertyAnchors == {"Name", "value", "timestamp"}
AnchorText(a) ==
    CASE a = "Name" -> AnchorName
      [] a = "value" -> AnchorValue
      [] a = "timestamp" -> AnchorTimestamp
AnchorOrders ==
    {o \in UNION {[1..n -> PropertyAnchors] : n \in 0..3} :
        \A i, j \in 1..Len(o) : i # j => o[i] # o[j]}
AnchorFills == [Name : {<< >>, <<"k">>},
                value : {<< >>, <<" ", "v">>, <<"v">>},
                timestamp : {<<" ", "1">>}]
RECURSIVE LineOf(_, _, _)
LineOf(order, fill, i) ==
    IF i > Len(order) THEN << >>
    ELSE AnchorText(order[i]) \o fill[order[i]] \o LineOf(order, fill, i + 1)
PropertyLines == {LineOf(o, f, 1) : o \in AnchorOrders, f \in AnchorFills}
\* the exit code and the output of "guestproperty enumerate" (no output is
\* read when the command failed)
PropertyInputs ==
    {in \in [code : ExitCodes,
             lines : UNION {[1..n -> PropertyLines] : n \in 0..MaxPropLines}] :
        in.code # 0 => in.lines = << >>}

\* ---------------------------------------------------------------- query actions
\* a query that is about to be made: the function, the machine, and what the
\* hypervisor command will answer
MachineInfoInputs == [uuid : VBoxIds, ans : ExitCodes, lines : InfoOutputs]
PendingQueries ==
    {[NoCall EXCEPT !.fn = "getMachineInfo", !.ret = "pending", !.in = in]
        : in \in MachineInfoInputs}
    \cup
    {[NoCall EXCEPT !.fn = "getAllProperties", !.ret = "pending",
                    !.in = [uuid |-> uuid, code |-> in.code, lines |-> in.lines]]
        : uuid \in VBoxIds, in \in PropertyInputs}

GetMachineInfoCall ==
    \E t \in Threads :
        /\ call.fn = "getMachineInfo"
        /\ call.ret = "pending"
        /\ NamedMutexFree(mutex, UuidLock(call.in.uuid))
        /\ LET r == GetMachineInfo(mutex, t, call.in.uuid, call.in.ans, call.in.lines)
           IN  /\ mutex' = r.mutex
               /\ call' = [call EXCEPT !.ret = "returned", !.out = r.dat]
        /\ lastOp' = Op("getMachineInfo", None, "map", {}, {})
        /\ UNCHANGED <<sessions, openSessions, heap, disk, vms, pc, running, hv, host>>

GetAllPropertiesCall ==
    \E t \in Threads :
        /\ call.fn = "getAllProperties"
        /\ call.ret = "pending"
        /\ NamedMutexFree(mutex, UuidLock(call.in.uuid))
        /\ LET r == GetAllProperties(mutex, t, call.in.uuid, call.in.code,
                                     call.in.lines)
           IN  /\ mutex' = r.mutex
               /\ call' = [call EXCEPT !.ret = IF r.threw THEN "thrown" ELSE "returned",
                                       !.out = r.ans]
        /\ lastOp' = Op("getAllProperties", None, "map", {}, {})
        /\ UNCHANGED <<sessions, openSessions, heap, disk, vms, pc, running, hv, host>>

\* ---------------------------------------------------------------- specification
vars == <<regVars, concVars, readyVars>>

RegInit ==
    /\ sessions = EmptyMap
    /\ openSessions = <<>>
    /\ heap = [o \in ObjIds |-> FreeObject]
    /\ disk = EmptyMap
    /\ vms = [v \in VBoxIds |-> "absent"]
    /\ lastOp = Op("init", None, "void", {}, {})

ConcInit ==
    /\ pc = [t \in Threads |-> Idle]
    /\ mutex = [n \in LockNames |-> None]
    /\ running = [t \in Threads |-> NotRunning]

\* the instance after construction, on a host without the extension pack
ReadyInit ==
    /\ hv = [vboxDrvKernelLoaded |-> TRUE, reflectionValid |-> TRUE,
             sessionLoaded |-> FALSE]
    /\ host = [linux |-> TRUE, extPack |-> FALSE, tmpFile |-> FALSE]
    /\ call = NoCall

Init == RegInit /\ ConcInit /\ ReadyInit

\* the registry operations, called one at a time
Next ==
    \/ Allocate
    \/ OpenExisting
    \/ OpenNew
    \/ Close
    \/ Delete
    \/ FindByExternalId
    \/ LoadSessions
    \/ Abort
    \/ FSMCreateVM
    \/ VMChange
    \/ ReleaseHandle

Spec == Init /\ [][Next]_vars

\* the command functions, called from several threads
NextConc ==
    \E t \in Threads :
        \/ Call(t)
        \/ LockStep(t)
        \/ UnlockStep(t)
        \/ ExecBegin(t)
        \/ ExecEnd(t)
        \/ IfFailedReturn(t)
        \/ MayReturn(t)
        \/ RegistryStep(t)
        \/ Return(t)

SpecConc == Init /\ [][NextConc]_vars

\* the same instance on any host: with or without the #ifdef __linux__ parts,
\* with or without the extension pack
InitReady ==
    /\ RegInit
    /\ ConcInit
    /\ hv = [vboxDrvKernelLoaded |-> TRUE, reflectionValid |-> TRUE,
             sessionLoaded |-> FALSE]
    /\ host \in [linux : BOOLEAN, extPack : BOOLEAN, tmpFile : {FALSE}]
    /\ call = NoCall

\* validation, readiness and installation, called one at a time next to the
\* registry operations, for as long as the process lives
NextReady ==
    \/ WaitTillReady
    \/ ValidateIntegrityCall
    \/ InstallExtPackCall
    \/ Allocate

SpecReady == InitReady /\ [][NextReady]_vars

\* the queries about a machine
NextQuery ==
    \/ GetMachineInfoCall
    \/ GetAllPropertiesCall

\* one query, with any arguments and any answer of its command
InitQuery ==
    /\ RegInit
    /\ ConcInit
    /\ hv = [vboxDrvKernelLoaded |-> TRUE, reflectionValid |-> TRUE,
             sessionLoaded |-> FALSE]
    /\ host = [linux |-> TRUE, extPack |-> FALSE, tmpFile |-> FALSE]
    /\ call \in PendingQueries

SpecQuery == InitQuery /\ [][NextQuery]_vars

\* loadSessions() followed through its loops, next to the registry operations;
\* the thread that runs the pass keeps running
NextLoop ==
    \/ Allocate
    \/ OpenExisting
    \/ OpenNew
    \/ Close
    \/ Abort
    \/ FSMCreateVM
    \/ VMChange
    \/ ReleaseHandle
    \/ PassBegin
    \/ PassRemoveExpired
    \/ PassReleaseLost

SpecLoop ==
    /\ Init
    /\ [][NextLoop]_vars
    /\ WF_vars(PassRemoveExpired)
    /\ WF_vars(PassReleaseLost)

\* ================================================================ claims
OpenUuids == {heap[openSessions[j]].uuid : j \in 1..Len(openSessions)}

\* C1: after a loadSessions() pass that returns 'completed', every session left in
\* the registry has a vboxid that is a key of the live-VM map built in that pass.
C1_NoOrphanAfterLoad ==
    (lastOp.op = "loadSessions" /\ lastOp.ret = "HVE_OK")
        => \A u \in DOMAIN sessions : VBoxIdOf(disk, u) \in VBoxVms(vms)

\* C2: in every reachable state every session of the open list is also in the
\* registry (by uuid).
C2_OpenListInRegistry == OpenUuids \subseteq DOMAIN sessions

\* C3: instances (openRefCount) is never negative.
C3_InstancesNeverNegative == \A o \in ObjIds : heap[o].instances >= 0

\* C4: for a session with instances 0, open() directly followed by close() removes
\* the session from the registry if and only if its state is SS_MISSING at close
\* time; otherwise it stays registered, is not on the open list and has instances 0.
C4_OpenThenClose ==
    [][(/\ lastOp.op = "open"
        /\ heap[lastOp.arg].instances = 1
        /\ lastOp'.op = "close"
        /\ lastOp'.arg = lastOp.arg)
        => LET o == lastOp.arg
               u == heap[o].uuid
           IN  /\ u \in DOMAIN sessions
               /\ (u \notin DOMAIN sessions') <=> (LocalState(disk, u) = "SS_MISSING")
               /\ u \in DOMAIN sessions' =>
                    /\ sessions'[u] = o
                    /\ OpenIndexOf(heap', openSessions', u) = None
                    /\ heap'[o].instances = 0]_vars

\* C4 witness: a close() that directly followed an open() from instances 0 has
\* removed the session from the registry.
C4_Witness ==
    /\ lastOp.op = "close"
    /\ lastOp.seq
    /\ heap[lastOp.arg].uuid \notin DOMAIN sessions

\* C5: close() decrements instances by exactly one; while the result is greater
\* than zero it does not abort, does not touch the open list and deletes nothing;
\* abort, open-list removal and deletion happen only on the close that brings the
\* count to zero.
C5_CloseOnlyAtZero ==
    [][lastOp'.op = "close"
        => LET o == lastOp'.arg
           IN  /\ heap'[o].instances = heap[o].instances - 1
               /\ heap'[o].instances > 0 =>
                    /\ lastOp'.aborted = {}
                    /\ UNCHANGED <<sessions, openSessions, disk>>
               /\ (\/ lastOp'.aborted # {}
                   \/ openSessions' # openSessions
                   \/ sessions' # sessions
                   \/ disk' # disk) => heap'[o].instances = 0]_vars

\* C6: delete(session) on a session of the registry leaves it absent from the
\* registry, the open list and the persisted storage whatever its instances and
\* state; a destruction notification is issued exactly when it was on the open
\* list; every other session, open-list entry and descriptor is unchanged.
C6_DeleteRemovesEverywhere ==
    [][(lastOp'.op = "delete" /\ heap[lastOp'.arg].uuid \in DOMAIN sessions)
        => LET u == heap[lastOp'.arg].uuid
               wasOpen == u \in OpenUuids
           IN  /\ sessions' = MapErase(sessions, u)
               /\ disk' = MapErase(disk, u)
               /\ openSessions' = SelectSeq(openSessions, LAMBDA x : heap[x].uuid # u)
               /\ heap' = heap
               /\ u \notin DOMAIN sessions'
               /\ u \notin DOMAIN disk'
               /\ OpenIndexOf(heap', openSessions', u) = None
               /\ Cardinality(lastOp'.notified) = (IF wasOpen THEN 1 ELSE 0)]_vars

\* C6 witness: delete() has just removed a session that was on the open list.
C6_Witness ==
    /\ lastOp.op = "delete"
    /\ lastOp.notified # {}
    /\ heap[lastOp.arg].uuid \notin DOMAIN sessions

\* C7: delete(session) on a session that is absent from the registry changes
\* neither the registry, the open list nor the persisted storage and notifies
\* nobody; a second delete() right after a delete() changes nothing.
C7_DeleteIdempotent ==
    [][(/\ lastOp'.op = "delete"
        /\ \/ heap[lastOp'.arg].uuid \notin DOMAIN sessions
           \/ lastOp.op = "delete" /\ lastOp.arg = lastOp'.arg)
        => /\ UNCHANGED <<sessions, openSessions, disk, heap>>
           /\ lastOp'.notified = {}
           /\ lastOp'.aborted = {}]_vars

\* C7 witness: a second delete() of the same session right after the first.
C7_Witness ==
    /\ lastOp.op = "delete"
    /\ lastOp.seq
    /\ heap[lastOp.arg].uuid \notin DOMAIN sessions

C9_NoOverlappingCommands ==
    \A t1, t2 \in Threads :
        (t1 # t2 /\ running[t1] # NotRunning /\ running[t2] # NotRunning)
            => running[t1].target # running[t2].target

\* C10: in waitTillReady() a failure in any phase halts the remaining phases: when
\* loadSessions() returned the query error, or installExtPack() returned a status
\* other than HVE_OK, waitTillReady() returns false, reports the failure to its
\* progress task and does not report "Hypervisor is ready".
C10_FailureHaltsReady ==
    LET Has(e) == \E i \in 1..Len(call.trace) : call.trace[i] = e
        loadFailed == Has(Ev("ret", "loadSessions", "HVE_QUERY_ERROR"))
        installFailed == \E i \in 1..Len(call.trace) :
                            /\ call.trace[i][1] = "ret"
                            /\ call.trace[i][2] = "installExtPack"
                            /\ call.trace[i][3] # "HVE_OK"
        failReported == \E i \in 1..Len(call.trace) :
                            call.trace[i][1] = "pf" /\ call.trace[i][2] = "fail"
    IN  (call.fn = "waitTillReady" /\ call.ret \in {"true", "false"}
            /\ (loadFailed \/ installFailed))
        => /\ call.ret = "false"
           /\ call.pf => failReported
           /\ ~Has(Ev("pf", "complete", "Hypervisor is ready"))

\* the calls and reports of the last readiness call
InTrace(e) == \E i \in 1..Len(call.trace) : call.trace[i] = e
InTraceAfter(e) == \E i \in 1..Len(call'.trace) : call'.trace[i] = e
FailReportedAfter ==
    \E i \in 1..Len(call'.trace) :
        call'.trace[i][1] = "pf" /\ call'.trace[i][2] = "fail"
RepairRunAfter == InTraceAfter(Ev("system", "run", "sudo /etc/init.d/vboxdrv setup"))
LoadRunAfter ==
    \E i \in 1..Len(call'.trace) :
        call'.trace[i][1] = "ret" /\ call'.trace[i][2] = "loadSessions"
ExtPackPhaseRunAfter == InTraceAfter(Ev("exec", "list extpacks", ""))

\* C11: when waitTillReady() is called with the driver-not-loaded flag set and
\* the user declines the confirmation, or there is no interaction handle, it
\* reports a failure, returns false and runs neither the repair command, the
\* session load nor the extension-pack phase; the repair command is run only
\* after an accepted confirmation.
C11_RepairOnlyAfterConfirmation ==
    [][(lastOp'.op = "waitTillReady" /\ ~hv.vboxDrvKernelLoaded)
        => LET accepted ==
                   /\ call'.ui
                   /\ InTraceAfter(Ev("ui", "confirm", "Virtualbox kernel driver problem"))
                   /\ ~InTraceAfter(Ev("ui", "alert",
                                       "vboxdrv kernel module is not loaded"))
           IN  /\ RepairRunAfter => accepted
               /\ ~accepted =>
                    /\ call'.ret = "false"
                    /\ call'.pf => FailReportedAfter
                    /\ ~RepairRunAfter
                    /\ ~LoadRunAfter
                    /\ ~ExtPackPhaseRunAfter]_vars

\* C12: in waitTillReady() installExtPack() is called only after confirmLicense()
\* was asked and accepted in the same call, and a refusal makes waitTillReady()
\* return false with the reason "User denied Oracle PUEL license" without calling
\* the installer.
C12_InstallOnlyAfterLicense ==
    LET installerCalled ==
            \E i \in 1..Len(call.trace) :
                call.trace[i][1] = "ret" /\ call.trace[i][2] = "installExtPack"
        asked == InTrace(Ev("ui", "confirmLicense",
                            "VirtualBox Personal Use and Evaluation License (PUEL)"))
        denied == asked /\ ~installerCalled
    IN  call.fn = "waitTillReady" =>
            /\ installerCalled => (call.ui /\ asked)
            /\ denied =>
                 /\ call.ret = "false"
                 /\ call.pf => InTrace(Ev("pf", "fail", "User denied Oracle PUEL license"))

\* C13: across any sequence of waitTillReady() calls loadSessions() is run at most
\* once: it is run only by a call that finds sessionLoaded unset and sets it, the
\* flag is never unset, and every later call runs no load, leaves the registry,
\* the open list, the session objects and the descriptors as they are and, when
\* it gets to that phase, reports "Sessions are loaded" to its progress task.
C13_LoadAtMostOnce ==
    [][/\ hv.sessionLoaded => hv'.sessionLoaded
       /\ (lastOp'.op = "waitTillReady" /\ LoadRunAfter)
            => (~hv.sessionLoaded /\ hv'.sessionLoaded)
       /\ (lastOp'.op = "waitTillReady" /\ hv.sessionLoaded)
            => /\ ~LoadRunAfter
               /\ UNCHANGED <<sessions, openSessions, heap, disk>>
               /\ (call'.pf /\ InTraceAfter(Ev("pf", "done", "VirtualBox driver in place")))
                    => InTraceAfter(Ev("pf", "done", "Sessions are loaded"))]_vars

\* C13 witness: a waitTillReady() call made after the load has reported "Sessions
\* are loaded" and has left a session, allocated since the load, in the registry.
C13_Witness ==
    /\ call.fn = "waitTillReady"
    /\ call.ret = "true"
    /\ InTrace(Ev("pf", "done", "Sessions are loaded"))
    /\ DOMAIN sessions # {}

\* what the last installExtPack() call did
FetchRunAfter == InTraceAfter(Ev("call", "downloadHypervisorConfig", ""))
DownloadRunAfter == InTraceAfter(Ev("call", "downloadFile", ""))
InstallRunAfter == InTraceAfter(Ev("exec", "extpack install", ""))

C15_ChecksumMismatch ==
    [][(/\ lastOp'.op = "installExtPack"
        /\ ~(host.extPack /\ call'.in.listed)
        /\ ~call'.in.checksumOk)
        => /\ DownloadRunAfter
           /\ call'.ret = "HVE_NOT_VALIDATED"
           /\ ~InstallRunAfter
           /\ host'.extPack = host.extPack
           /\ ~host.extPack => ~HasExtPack(host', TRUE)]_vars

\* C15 witness: installExtPack() has returned HVE_NOT_VALIDATED after a download
\* whose checksum differs, on a host without the extension pack.
C15_Witness ==
    /\ call.fn = "installExtPack"
    /\ ~call.in.checksumOk
    /\ call.ret = "HVE_NOT_VALIDATED"
    /\ InTrace(Ev("call", "downloadFile", ""))
    /\ ~host.extPack

\* C16: when the configuration fetch fails, installExtPack() returns
\* HVE_NOT_VALIDATED or HVE_NOT_TRUSTED if the fetch reported that code and
\* HVE_EXTERNAL_ERROR for every other code of the fetch, and runs neither the
\* download nor the install command.
C16_FetchFailure ==
    (/\ call.fn = "installExtPack"
     /\ InTrace(Ev("call", "downloadHypervisorConfig", ""))
     /\ call.in.fetch # "HVE_OK")
    => /\ call.ret = (IF call.in.fetch \in {"HVE_NOT_VALIDATED", "HVE_NOT_TRUSTED"}
                      THEN call.in.fetch ELSE "HVE_EXTERNAL_ERROR")
       /\ ~InTrace(Ev("call", "downloadFile", ""))
       /\ ~InTrace(Ev("exec", "extpack install", ""))

\* C17: the downloaded artifact is deleted only on the full success path: after
\* installExtPack() returned, an artifact that was not there before the call is
\* on the disk if and only if the download succeeded and the status is not
\* HVE_OK; a call that downloaded nothing leaves the disk as it was.
C17_ArtifactLeftOnFailure ==
    [][lastOp'.op = "installExtPack"
        => LET downloadOk == DownloadRunAfter /\ call'.in.download = "HVE_OK"
           IN  /\ ~host.tmpFile =>
                    (host'.tmpFile <=> (downloadOk /\ call'.ret # "HVE_OK"))
               /\ call'.ret = "HVE_OK" => ~host'.tmpFile
               /\ (downloadOk /\ call'.ret # "HVE_OK") => host'.tmpFile
               /\ ~downloadOk => host'.tmpFile = host.tmpFile]_vars

\* C17 witness: installExtPack() has failed at the install command and the
\* downloaded artifact is still on the disk.
C17_Witness ==
    /\ call.fn = "installExtPack"
    /\ ~call.in.installOk
    /\ call.ret = "HVE_EXTERNAL_ERROR"
    /\ InTrace(Ev("exec", "extpack install", ""))
    /\ host.tmpFile

\* C18: validateIntegrity() returns false whenever a line of the "--version"
\* output holds ERROR, whenever the standard error is not empty and whenever a
\* line holds a WARNING that is not the driver-not-loaded condition (the vboxdrv
\* message, on a Linux host); a driver-not-loaded WARNING clears
\* vboxDrvKernelLoaded and does not by itself make the call return false: with
\* none of the three fatal conditions the call returns true.
C18_ValidateTokens ==
    \A in \in VersionInputs :
        LET v == ValidateIntegrity(hv, host.linux, in)
            lines == {in.out[i] : i \in 1..Len(in.out)}
            driverNotLoaded(l) == host.linux /\ l.warning /\ l.vboxdrv
            hasError == \E l \in lines : l.error
            fatalWarning == \E l \in lines : l.warning /\ ~driverNotLoaded(l)
            fatal == hasError \/ in.err \/ fatalWarning
        IN  in.exists =>
                /\ fatal => ~v.ret
                /\ ~fatal => v.ret
                /\ (v.ret /\ \E l \in lines : driverNotLoaded(l))
                      => ~v.hv.vboxDrvKernelLoaded
                /\ (v.ret /\ host.linux /\ ~\E l \in lines : driverNotLoaded(l))
                      => v.hv.vboxDrvKernelLoaded

\* C18 witness: validateIntegrity() has returned true on an output with the
\* driver-not-loaded warning, and the flag tells it.
C18_Witness ==
    /\ call.fn = "validateIntegrity"
    /\ call.ret = "true"
    /\ ~hv.vboxDrvKernelLoaded

\* the number a sequence of decimal digits stands for
DigitValue(c) == CHOOSE d \in 0..9 : DecimalDigits[d + 1] = c
RECURSIVE Ston(_)
Ston(str) ==
    IF str = << >> THEN 0
    ELSE 10 * Ston(SubSeq(str, 1, Len(str) - 1)) + DigitValue(str[Len(str)])

\* C19: when "showvminfo" exits with a code other than 0, getMachineInfo()
\* returns a map with exactly one entry, the key ":ERROR:" with the exit code as
\* its value; on the error path and on the success path the mutex of the machine
\* is free when the function has returned.
C19_MachineInfoError ==
    (call.fn = "getMachineInfo" /\ call.ret = "returned")
        => /\ mutex[UuidLock(call.in.uuid)] = None
           /\ call.in.ans # 0 =>
                /\ DOMAIN call.out = {":ERROR:"}
                /\ Ston(call.out[":ERROR:"]) = call.in.ans

\* C19 witness: getMachineInfo() has returned on exit code 255.
C19_Witness ==
    /\ call.fn = "getMachineInfo"
    /\ call.ret = "returned"
    /\ call.in.ans = 255
    /\ ":ERROR:" \in DOMAIN call.out

\* the first occurrence of pat in line at or after position from, or npos
FindFrom(line, pat, from) ==
    LET hits == {i \in from..(Len(line) - Len(pat)) :
                    \A j \in 1..Len(pat) : line[i + j] = pat[j]}
    IN  IF hits = {} THEN NPos ELSE Min(hits)
\* the three anchors of a line, each looked for after the one before it
AnchorsInOrder(line) ==
    LET n == FindFrom(line, AnchorName, 0)
        v == IF n = NPos THEN NPos ELSE FindFrom(line, AnchorValue, n + Len(AnchorName))
        t == IF v = NPos THEN NPos
             ELSE FindFrom(line, AnchorTimestamp, v + Len(AnchorValue))
    IN  [ok |-> t # NPos, name |-> n, value |-> v, timestamp |-> t]
\* the text between two anchors, and the same without the blank that follows
\* "value:" in "Name: foo, value: bar, timestamp: 123"
Between(line, from, to) == SubSeq(line, from + 1, to)
Unblanked(str) == IF str # << >> /\ str[1] = " " THEN SubSeq(str, 2, Len(str)) ELSE str
\* the properties the lines stand for
RECURSIVE PropertiesOf(_, _, _)
PropertiesOf(lines, i, props) ==
    IF i > Len(lines) THEN props
    ELSE LET a == AnchorsInOrder(lines[i])
         IN  IF ~a.ok THEN PropertiesOf(lines, i + 1, props)
             ELSE PropertiesOf(lines, i + 1,
                    MapPut(props,
                           Between(lines[i], a.name + Len(AnchorName), a.value),
                           Unblanked(Between(lines[i], a.value + Len(AnchorValue),
                                             a.timestamp))))

\* C20: getAllProperties() accepts a line if and only if it holds the anchors
\* "Name: ", ", value:" and ", timestamp:" in that order; the key of an accepted
\* line is the text between the first and the second anchor, its value the text
\* between the second and the third; every other line is skipped, without
\* failing the call and without effect on the other lines.
C20_PropertyLines ==
    (call.fn = "getAllProperties" /\ call.ret # "pending" /\ call.in.code = 0)
        => /\ call.ret = "returned"
           /\ call.out = PropertiesOf(call.in.lines, 1, EmptyMap)

\* the registered sessions bound to a machine id
BoundTo(id) == {u \in DOMAIN sessions : VBoxIdOf(disk, heap[sessions[u]].uuid) = id}

\* C21: a lookup by machine id returns the registered session that is bound to
\* that id, itself and not another session, whatever else the registry holds;
\* a lookup with an id that no registered session is bound to returns none.
C21_FindByExternalId ==
    lastOp.op = "sessionByVBID"
        => /\ \A u \in BoundTo(lastOp.id) : lastOp.arg = sessions[u]
           /\ BoundTo(lastOp.id) = {} => (lastOp.arg = None /\ lastOp.ret = "none")

\* a lookup that found a session allocated after another one, which is not bound
\* to that machine and comes first in the registry
C21_Witness ==
    /\ lastOp.op = "sessionByVBID"
    /\ lastOp.arg # None
    /\ Cardinality(DOMAIN sessions) = 2
    /\ lastOp.arg # sessions[MapBegin(sessions)]
    /\ VBoxIdOf(disk, MapBegin(sessions)) # lastOp.id

C23_FailedQuery ==
    [][(lastOp'.op = "loadSessions" /\ lastOp'.ret # "HVE_OK")
          => /\ lastOp'.ret = "HVE_QUERY_ERROR"
             /\ disk' = disk
             /\ openSessions' = openSessions
             /\ lastOp'.notified = {}
             /\ lastOp'.aborted = {}
             /\ DOMAIN sessions' = ValidDescriptors(disk)
             /\ \A u \in DOMAIN sessions' :
                    /\ heap'[sessions'[u]].uuid = u
                    /\ sessions'[u] \in FreeObjects(heap)]_vars

\* a failed pass over a registry that a completed pass would have changed: the
\* open list is not empty, the machine of a registered session is not live, and
\* a descriptor was not imported by the reload
C23_Witness ==
    /\ lastOp.op = "loadSessions"
    /\ lastOp.ret = "HVE_QUERY_ERROR"
    /\ openSessions # << >>
    /\ \E u \in DOMAIN sessions : VBoxIdOf(disk, u) \notin VBoxVms(vms)
    /\ \E u \in DOMAIN disk : u \notin DOMAIN sessions

\* the objects on the open list
OpenObjects(open) == {open[j] : j \in 1..Len(open)}

\* C24: after a loadSessions() pass that returns 'completed', every session that
\* was on the open list before the pass and is not in the registry after it has
\* been dropped from the open list and has itself, the object the open list
\* held, been notified of its destruction; whether it was dropped in step 3 or
\* in step 4, and wherever it stood on the list.
C24_LostSessionsReleased ==
    [][(lastOp'.op = "loadSessions" /\ lastOp'.ret = "HVE_OK")
          => \A o \in OpenObjects(openSessions) :
                heap[o].uuid \notin DOMAIN sessions'
                    => /\ o \notin OpenObjects(openSessions')
                       /\ o \in lastOp'.notified]_vars

\* the phases of an installation, by the call each of them makes
InstallPhases ==
    << Ev("call", "downloadHypervisorConfig", ""),
       Ev("call", "contains", "url"),
       Ev("call", "contains", "checksum"),
       Ev("call", "downloadFile", ""),
       Ev("call", "sha256_file", ""),
       Ev("exec", "extpack install", ""),
       Ev("call", "remove", "") >>
PositionsOf(e) == {i \in 1..Len(call.trace) : call.trace[i] = e}
\* every phase is run at most once, none without all the phases before it, and
\* in the order of InstallPhases
PhasesInOrder ==
    /\ \A p \in 1..Len(InstallPhases) : Cardinality(PositionsOf(InstallPhases[p])) <= 1
    /\ \A p, q \in 1..Len(InstallPhases) :
          (p < q /\ PositionsOf(InstallPhases[q]) # {})
              => \E i \in PositionsOf(InstallPhases[p]) :
                    \A j \in PositionsOf(InstallPhases[q]) : i < j

\* C25: in every run of installExtPack() the phases come in the order fetch of
\* the configuration, key validation, download, checksum, install, clean-up; the
\* download starts only when both keys are in the configuration, and a missing
\* key returns HVE_EXTERNAL_ERROR without a download; the install command runs
\* only after a successful download and an equal checksum; an installer that
\* exits with a non-zero code makes the call return HVE_EXTERNAL_ERROR.
C25_InstallPhases ==
    call.fn = "installExtPack"
        => /\ PhasesInOrder
           /\ InTrace(Ev("call", "downloadFile", ""))
                 => (call.in.hasUrl /\ call.in.hasChecksum)
           /\ (InTrace(Ev("call", "contains", "url"))
                   /\ ~(call.in.hasUrl /\ call.in.hasChecksum))
                 => (call.ret = "HVE_EXTERNAL_ERROR"
                        /\ ~InTrace(Ev("call", "downloadFile", "")))
           /\ InTrace(Ev("exec", "extpack install", ""))
                 => (call.in.download = "HVE_OK" /\ call.in.checksumOk)
           /\ (InTrace(Ev("exec", "extpack install", "")) /\ ~call.in.installOk)
                 => call.ret = "HVE_EXTERNAL_ERROR"

\* an installation that went through every phase and left the pack installed
C25_Witness ==
    /\ call.fn = "installExtPack"
    /\ call.ret = "HVE_OK"
    /\ \A p \in 1..Len(InstallPhases) : InTrace(InstallPhases[p])
    /\ host.extPack

\* the thread is inside the reconciliation pass of loadSessions(): past the
\* lock statement and not yet back in its caller
InPass(t) == pc[t].fn = "loadSessions" /\ ~InCaller(t) /\ pc[t].at >= 2

\* C26: under any interleaving of threads calling loadSessions(), at most one
\* thread at a time is inside the reconciliation pass (steps 1 to 4), and that
\* thread holds the "session-update" mutex: the reload, the orphan removal and
\* the open-list release of one pass never interleave with those of another.
C26_OnePassAtATime ==
    /\ \A t1, t2 \in Threads : (InPass(t1) /\ InPass(t2)) => t1 = t2
    /\ \A t \in Threads : InPass(t) => mutex[SessionUpdateLock] = t

\* one thread has reloaded the registry and is about to reconcile it while
\* another thread waits at the lock statement of loadSessions()
C26_Witness ==
    \E t1, t2 \in Threads :
        /\ t1 # t2
        /\ InPass(t1) /\ InBody(t1) /\ Cur(t1).k = "reconcile"
        /\ pc[t2].fn = "loadSessions" /\ pc[t2].at = 1

\* C27: after any sequence of validateIntegrity() calls the validity flag
\* reflectionValid equals the result of the most recent call: when the call
\* returns false, for an ERROR token, a fatal WARNING token or a standard error
\* that is not empty, the flag is false afterwards, also when an earlier call
\* had succeeded.
C27_FlagIsLastResult ==
    [][lastOp'.op = "validateIntegrity"
          => hv'.reflectionValid = (call'.ret = "true")]_vars

====
